---- MODULE Spec2Model ----
(***************************************************************************)
(* A model of the AI PDF reader: the conversation history manager, the     *)
(* text chunker and the page extractors of main.py, and the Streamlit      *)
(* session of app.py (PDF processing, context truncation).                 *)
(*                                                                         *)
(* Python strings are modelled as sequences of one-character strings,      *)
(* Python lists as sequences, and Python dict objects as entries of a      *)
(* heap addressed by reference, so that aliasing is visible.               *)
(***************************************************************************)
EXTENDS Integers, Sequences, FiniteSets, TLC

VARIABLES
    \* ---- ConversationManager (main.py) ----
    max_history,   \* self.max_history
    messages,      \* self.messages: a list of references to dict objects
    heap,          \* the dict objects: heap[ref] = [role, content]
    returned,      \* the caller's list, as returned by the last get_history()
    added,         \* history: what was passed to add_message since the last clear
    tampered,      \* history: references whose dict the caller wrote to
    caller_ops     \* history: number of mutations the caller performed

VARIABLES
    \* ---- TextProcessor.chunk_text (main.py) ----
    text,          \* the argument text
    chunk_size,    \* the argument chunk_size
    overlap,       \* the argument overlap
    start,         \* the cursor of the while loop
    chunks,        \* the list the loop appends to
    offsets,       \* history: the (start, end) each chunk was sliced with
    result,        \* the returned list
    chunk_pc       \* position: "idle", "call", "while", "body", "done"

VARIABLES
    \* ---- the two page extractors (main.py, app.py) ----
    pdf_file,      \* the PDF handed to the extractor
    extractor,     \* which extractor ran: "PDFExtractor" or "PDFProcessor"
    extracted,     \* what it returned or raised
    \* ---- the Streamlit session (app.py) ----
    pdf_texts,     \* st.session_state.pdf_texts
    pdf_names,     \* st.session_state.pdf_names
    st_messages,   \* st.session_state.messages
    prompt,        \* the prompt OllamaAssistant.chat built in this run of the script
    processed      \* history: the files of the last Process, emptied by Clear

conv_vars == <<max_history, messages, heap, returned, added, tampered, caller_ops>>
chunk_vars == <<text, chunk_size, overlap, start, chunks, offsets, result, chunk_pc>>

ext_vars == <<pdf_file, extractor, extracted>>
sess_vars == <<pdf_texts, pdf_names, st_messages, prompt, processed>>

vars == <<conv_vars, chunk_vars, ext_vars, sess_vars>>

\* ------------------------------------------------------------------------
\* Python built-ins
\* ------------------------------------------------------------------------
Min(a, b) == IF a < b THEN a ELSE b
Max(a, b) == IF a > b THEN a ELSE b

\* Python's normalisation of a slice bound i for a sequence of length n
\* (0-based): a negative bound counts from the end, and bounds are clamped.
PyBound(i, n) == IF i < 0 THEN Max(i + n, 0) ELSE Min(i, n)

\* s[lo:hi] with 0-based Python bounds
PySlice(s, lo, hi) ==
    SubSeq(s, PyBound(lo, Len(s)) + 1, PyBound(hi, Len(s)))

\* s[lo:]
PySliceFrom(s, lo) == SubSeq(s, PyBound(lo, Len(s)) + 1, Len(s))

\* n copies of the character c
Repeat(c, n) == [i \in 1..n |-> c]

\* sep.join(parts)
RECURSIVE Join(_, _)
Join(parts, sep) ==
    IF Len(parts) = 0 THEN <<>>
    ELSE IF Len(parts) = 1 THEN parts[1]
    ELSE parts[1] \o sep \o Join(Tail(parts), sep)

\* str.strip(): leading and trailing whitespace removed
IsSpace(c) == c \in {" ", "\n", "\t"}
RECURSIVE FirstInk(_, _)
FirstInk(s, i) == IF i > Len(s) \/ ~IsSpace(s[i]) THEN i ELSE FirstInk(s, i + 1)
RECURSIVE LastInk(_, _)
LastInk(s, i) == IF i < 1 \/ ~IsSpace(s[i]) THEN i ELSE LastInk(s, i - 1)
PyStrip(s) == SubSeq(s, FirstInk(s, 1), LastInk(s, Len(s)))

\* str(n) for n >= 0
Digit(d) == <<"0", "1", "2", "3", "4", "5", "6", "7", "8", "9">>[d + 1]
RECURSIVE PyStr(_)
PyStr(n) == IF n < 10 THEN <<Digit(n)>> ELSE PyStr(n \div 10) \o <<Digit(n % 10)>>

\* ------------------------------------------------------------------------
\* ConversationManager
\* ------------------------------------------------------------------------
MaxHistory == 2     \* largest max_history tried
MaxObjects == 3     \* dict objects allocated in one run
MaxCallerOps == 1   \* mutations the caller performs in one run
SummaryLimit == 100 \* get_summary cuts content after this many characters

Str_user == <<"u", "s", "e", "r">>
Str_assistant == <<"a", "s", "s", "i", "s", "t", "a", "n", "t">>
Roles == {Str_user, Str_assistant}
Contents == {<<"h", "i">>, Repeat("x", SummaryLimit + 1)}
\* the messages passed to add_message: a short question, an answer over the limit
Inputs == {[role |-> Str_user, content |-> <<"h", "i">>],
           [role |-> Str_assistant, content |-> Repeat("x", SummaryLimit + 1)]}

\* str.upper() on the characters that occur in roles and contents
UpperChar(c) ==
    CASE c = "a" -> "A" [] c = "e" -> "E" [] c = "h" -> "H" [] c = "i" -> "I"
      [] c = "n" -> "N" [] c = "r" -> "R" [] c = "s" -> "S" [] c = "t" -> "T"
      [] c = "u" -> "U" [] c = "x" -> "X" [] OTHER -> c
Upper(s) == [i \in 1..Len(s) |-> UpperChar(s[i])]

\* the values of the stored messages, in order
HistoryValue == [i \in 1..Len(messages) |-> heap[messages[i]]]

\* the chunker is not running
ChunkIdle ==
    /\ text = <<>>
    /\ chunk_size = 0
    /\ overlap = 0
    /\ start = 0
    /\ chunks = <<>>
    /\ offsets = <<>>
    /\ result = <<>>
    /\ chunk_pc = "idle"

\* no prompt was built in this run of the script
NoPrompt == [kind |-> "none", document |-> <<>>, question |-> <<>>]

\* no extractor has run
ExtIdle ==
    /\ pdf_file = [name |-> "", readable |-> TRUE, pages |-> <<>>]
    /\ extractor = "none"
    /\ extracted = [raised |-> FALSE, text |-> <<>>]

\* initialize_session_state, and no prompt built yet
SessIdle ==
    /\ pdf_texts = <<>>
    /\ pdf_names = <<>>
    /\ st_messages = <<>>
    /\ prompt = NoPrompt
    /\ processed = <<>>

ConvIdle ==
    /\ max_history = 0
    /\ messages = <<>>
    /\ heap = <<>>
    /\ returned = <<>>
    /\ added = <<>>
    /\ tampered = {}
    /\ caller_ops = 0

ConvInit ==
    /\ ChunkIdle
    /\ ExtIdle
    /\ SessIdle
    /\ max_history \in 0..MaxHistory
    /\ messages = <<>>
    /\ heap = <<>>
    /\ returned = <<>>
    /\ added = <<>>
    /\ tampered = {}
    /\ caller_ops = 0

\* a trimming that keeps the oldest messages instead of the newest
TrimKeepFirst(msgs, m) == IF Len(msgs) > m THEN SubSeq(msgs, 1, Min(m, Len(msgs))) ELSE msgs
\* the trimming of add_message:
\*   if len(self.messages) > self.max_history:
\*       self.messages = self.messages[-self.max_history:]
Trim(msgs, m) == IF Len(msgs) > m THEN PySliceFrom(msgs, -m) ELSE msgs

add_message(role, content) ==
    /\ Len(heap) < MaxObjects
    /\ LET ref == Len(heap) + 1 IN
        /\ heap' = Append(heap, [role |-> role, content |-> content])
        /\ messages' = Trim(Append(messages, ref), max_history)
        /\ added' = Append(added, [ref |-> ref, role |-> role, content |-> content])
    /\ UNCHANGED <<max_history, returned, tampered, caller_ops>>
    /\ UNCHANGED <<chunk_vars, ext_vars, sess_vars>>

\* list.copy(): a new list holding the same references
CopyList(l) == l

get_history ==
    /\ returned' = CopyList(messages)
    /\ UNCHANGED <<max_history, messages, heap, added, tampered, caller_ops>>
    /\ UNCHANGED <<chunk_vars, ext_vars, sess_vars>>

clear_history ==
    /\ messages' = <<>>
    /\ added' = <<>>
    /\ UNCHANGED <<max_history, heap, returned, tampered, caller_ops>>
    /\ UNCHANGED <<chunk_vars, ext_vars, sess_vars>>

SummaryLine(msg) ==
    Upper(msg.role) \o <<":", " ">> \o
        (IF Len(msg.content) > SummaryLimit
         THEN SubSeq(msg.content, 1, SummaryLimit) \o <<".", ".", ".">>
         ELSE msg.content)

\* the string get_summary returns
SummaryText == Join([i \in 1..Len(messages) |-> SummaryLine(heap[messages[i]])], <<"\n">>)

\* get_summary builds the string above from self.messages and assigns
\* nothing; the string is returned to the caller and not kept
get_summary ==
    /\ Len(SummaryText) >= 0
    /\ UNCHANGED <<max_history, messages, heap, returned, added, tampered, caller_ops>>
    /\ UNCHANGED <<chunk_vars, ext_vars, sess_vars>>

\* ---- what a caller can do with the list get_history() returned ----
CallerAppend(role, content) ==
    /\ Len(heap) < MaxObjects
    /\ heap' = Append(heap, [role |-> role, content |-> content])
    /\ returned' = Append(returned, Len(heap) + 1)
    /\ caller_ops' = caller_ops + 1
    /\ UNCHANGED <<max_history, messages, added, tampered>>
    /\ UNCHANGED <<chunk_vars, ext_vars, sess_vars>>

CallerRemove(i) ==
    /\ i \in 1..Len(returned)
    /\ returned' = SubSeq(returned, 1, i - 1) \o SubSeq(returned, i + 1, Len(returned))
    /\ caller_ops' = caller_ops + 1
    /\ UNCHANGED <<max_history, messages, heap, added, tampered>>
    /\ UNCHANGED <<chunk_vars, ext_vars, sess_vars>>

CallerReplace(i, ref) ==
    /\ i \in 1..Len(returned)
    /\ ref \in 1..Len(heap)
    /\ returned[i] # ref
    /\ returned' = [returned EXCEPT ![i] = ref]
    /\ caller_ops' = caller_ops + 1
    /\ UNCHANGED <<max_history, messages, heap, added, tampered>>
    /\ UNCHANGED <<chunk_vars, ext_vars, sess_vars>>

CallerSetContent(i, content) ==
    /\ i \in 1..Len(returned)
    /\ heap[returned[i]].content # content
    /\ heap' = [heap EXCEPT ![returned[i]].content = content]
    /\ tampered' = tampered \cup {returned[i]}
    /\ caller_ops' = caller_ops + 1
    /\ UNCHANGED <<max_history, messages, returned, added>>
    /\ UNCHANGED <<chunk_vars, ext_vars, sess_vars>>

CallerSetRole(i, role) ==
    /\ i \in 1..Len(returned)
    /\ heap[returned[i]].role # role
    /\ heap' = [heap EXCEPT ![returned[i]].role = role]
    /\ tampered' = tampered \cup {returned[i]}
    /\ caller_ops' = caller_ops + 1
    /\ UNCHANGED <<max_history, messages, returned, added>>
    /\ UNCHANGED <<chunk_vars, ext_vars, sess_vars>>

CallerMutation ==
    /\ caller_ops < MaxCallerOps
    /\ \/ \E m \in Inputs : CallerAppend(m.role, m.content)
       \/ \E i \in 1..MaxObjects : CallerRemove(i)
       \/ \E i \in 1..MaxObjects, ref \in 1..MaxObjects : CallerReplace(i, ref)
       \/ \E i \in 1..MaxObjects, c \in Contents : CallerSetContent(i, c)
       \/ \E i \in 1..MaxObjects, r \in Roles : CallerSetRole(i, r)

ConvNext ==
    \/ \E m \in Inputs : add_message(m.role, m.content)
    \/ get_history
    \/ clear_history
    \/ get_summary
    \/ CallerMutation

ConvSpec == ConvInit /\ [][ConvNext]_vars

\* ---- claims about the ConversationManager ----

\* C1: for any max_history >= 0 (0 included) the number of stored messages
\* never exceeds max_history, whatever calls are made.
C1_HistoryBounded == Len(messages) <= max_history

\* the last k entries of what was added since the last clear
LastAdded(k) == SubSeq(added, Len(added) - k + 1, Len(added))

\* l holds exactly the message objects of exp, in order, and each of them the
\* caller has not written to still has the role and content it was added with
SameMessages(l, exp, hp, tamp) ==
    /\ Len(l) = Len(exp)
    /\ \A i \in 1..Len(exp) :
          /\ l[i] = exp[i].ref
          /\ l[i] \notin tamp =>
                hp[l[i]] = [role |-> exp[i].role, content |-> exp[i].content]

\* C5: with max_history = m >= 1, after n add_message calls since the last
\* clear, get_history returns exactly the last min(n, m) messages added, in
\* the order they were added.
C5_GetHistoryReturnsLastAdded ==
    [][(max_history >= 1 /\ get_history) =>
          SameMessages(returned', LastAdded(Min(Len(added), max_history)),
                       heap', tampered')]_vars

\* C5 witness: more messages were added than max_history >= 2 allows, and
\* get_history returned the max_history newest ones
C5_Witness ==
    /\ max_history >= 2
    /\ Len(added) > max_history
    /\ caller_ops = 0
    /\ Len(returned) = max_history
    /\ returned = [i \in 1..max_history |-> LastAdded(max_history)[i].ref]

\* C6: no mutation the caller performs on the value get_history() returned
\* (on the list or on a message obtained from it) changes the stored history.
C6_CallerCannotChangeHistory ==
    [][CallerMutation => HistoryValue' = HistoryValue]_vars

\* ------------------------------------------------------------------------
\* TextProcessor.chunk_text
\* ------------------------------------------------------------------------
MaxLen == 6         \* longest text tried
MaxChunkSize == 5   \* largest chunk_size tried
MaxOverlap == 4     \* largest overlap tried
MaxChunks == 9      \* chunks the model records; later ones are not recorded
MaxBack == 8        \* how far below 0 the cursor is followed

Alphabet == {"a", ".", " "}
Texts == UNION {[1..n -> Alphabet] : n \in 0..MaxLen}

\* str.rfind(sub, lo, hi): the highest index i with s[i:i+len(sub)] == sub
\* inside the slice s[lo:hi], or -1; indices are 0-based
PyRFind(s, sub, lo, hi) ==
    LET a == PyBound(lo, Len(s))
        b == PyBound(hi, Len(s))
        found == {i \in a..(b - Len(sub)) : SubSeq(s, i + 1, i + Len(sub)) = sub}
    IN  IF found = {} THEN -1 ELSE CHOOSE i \in found : \A j \in found : j <= i

\* the end of the window that starts at st:
\*   end = start + chunk_size
\*   if end < len(text):
\*       sentence_end = text.rfind('. ', start, end)
\*       if sentence_end > start:
\*           end = sentence_end + 1
WindowEnd(t, st, size) ==
    LET end == st + size IN
    IF end < Len(t)
    THEN LET sentence_end == PyRFind(t, <<".", " ">>, st, end) IN
         IF sentence_end > st THEN sentence_end + 1 ELSE end
    ELSE end

\* start = end - overlap if end < len(text) else end
NextStart(t, end, ov) == IF end < Len(t) THEN end - ov ELSE end

\* list.append, of which the model records the first MaxChunks entries: a
\* call that returns within the bounds appends fewer, and a loop that never
\* ends keeps running with the list as it is
Record(l, x) == IF Len(l) < MaxChunks THEN Append(l, x) ELSE l

ChunkInit ==
    /\ ConvIdle
    /\ ExtIdle
    /\ SessIdle
    /\ text \in Texts
    /\ chunk_size \in 0..MaxChunkSize
    /\ overlap \in 0..MaxOverlap
    /\ start = 0
    /\ chunks = <<>>
    /\ offsets = <<>>
    /\ result = <<>>
    /\ chunk_pc = "call"

\* if len(text) <= chunk_size: return [text]
ChunkShort ==
    /\ chunk_pc = "call"
    /\ Len(text) <= chunk_size
    /\ result' = <<text>>
    /\ offsets' = <<<<0, Len(text)>>>>
    /\ chunk_pc' = "done"
    /\ UNCHANGED <<text, chunk_size, overlap, start, chunks>>
    /\ UNCHANGED <<conv_vars, ext_vars, sess_vars>>

\* chunks = []; start = 0
ChunkEnter ==
    /\ chunk_pc = "call"
    /\ Len(text) > chunk_size
    /\ chunks' = <<>>
    /\ start' = 0
    /\ chunk_pc' = "while"
    /\ UNCHANGED <<text, chunk_size, overlap, offsets, result>>
    /\ UNCHANGED <<conv_vars, ext_vars, sess_vars>>

\* while start < len(text): the test succeeds. (A cursor that runs away
\* below 0, as it can only with overlap >= chunk_size, is followed down to
\* -MaxBack.)
ChunkWhile ==
    /\ chunk_pc = "while"
    /\ start < Len(text)
    /\ start >= -MaxBack
    /\ chunk_pc' = "body"
    /\ UNCHANGED <<text, chunk_size, overlap, start, chunks, offsets, result>>
    /\ UNCHANGED <<conv_vars, ext_vars, sess_vars>>

\* the body of the loop
ChunkBody ==
    /\ chunk_pc = "body"
    /\ LET end == WindowEnd(text, start, chunk_size) IN
        /\ chunks' = Record(chunks, PySlice(text, start, end))
        /\ offsets' = Record(offsets, <<start, end>>)
        /\ start' = NextStart(text, end, overlap)
    /\ chunk_pc' = "while"
    /\ UNCHANGED <<text, chunk_size, overlap, result>>
    /\ UNCHANGED <<conv_vars, ext_vars, sess_vars>>

\* the test fails: return chunks
ChunkReturn ==
    /\ chunk_pc = "while"
    /\ ~(start < Len(text))
    /\ result' = chunks
    /\ chunk_pc' = "done"
    /\ UNCHANGED <<text, chunk_size, overlap, start, chunks, offsets>>
    /\ UNCHANGED <<conv_vars, ext_vars, sess_vars>>

ChunkNext ==
    \/ ChunkShort
    \/ ChunkEnter
    \/ ChunkWhile
    \/ ChunkBody
    \/ ChunkReturn

ChunkSpec == ChunkInit /\ [][ChunkNext]_vars

\* the interpreter keeps running the loop
ChunkFairSpec == ChunkSpec /\ WF_vars(ChunkNext)

\* ---- claims about chunk_text ----
ValidParams == chunk_size > overlap /\ overlap >= 0

\* C2: with overlap >= chunk_size chunk_text ends in a configuration error:
\* it never returns a chunk list as if the parameters were valid (and it
\* never enters the loop).
C2_DegenerateRejected ==
    overlap >= chunk_size => chunk_pc \notin {"while", "body", "done"}

\* C3: for chunk_size > overlap >= 0 chunk_text terminates and returns.
C3_Terminates == (chunk_pc = "call" /\ ValidParams) ~> (chunk_pc = "done")

\* the offsets a slice text[s:e] really covers
EffStart(o) == PyBound(o[1], Len(text))
EffEnd(o) == Max(PyBound(o[1], Len(text)), PyBound(o[2], Len(text)))

Covers ==
    /\ Len(offsets) >= 1
    /\ Len(result) = Len(offsets)
    /\ \A i \in 1..Len(offsets) :
          result[i] = SubSeq(text, EffStart(offsets[i]) + 1, EffEnd(offsets[i]))
    /\ EffStart(offsets[1]) = 0
    /\ \A i \in 1..(Len(offsets) - 1) : EffStart(offsets[i + 1]) <= EffEnd(offsets[i])
    /\ EffEnd(offsets[Len(offsets)]) = Len(text)

\* C4: for chunk_size > overlap >= 0 the returned chunks cover the text: the
\* first starts at 0, each later one starts at or before the end of the one
\* before it, and the last ends at len(text).
C4_ChunksCover == (ValidParams /\ chunk_pc = "done") => Covers

\* C8: for chunk_size > overlap >= 0 the cursor of an iteration is never
\* smaller than the cursor of the iteration before it, and never negative.
C8_CursorMonotone ==
    [][(ValidParams /\ ChunkBody) => (start' >= start /\ start' >= 0)]_vars

\* ------------------------------------------------------------------------
\* PDFExtractor.extract_text_from_pdf (main.py), PDFProcessor.extract_text
\* (app.py)
\*
\* A PDF is [name, readable, pages]: PyPDF2.PdfReader(pdf_file) raises when
\* it is not readable; page.extract_text() raises on a page with ok = FALSE
\* and returns the page's text otherwise.
\* ------------------------------------------------------------------------
MaxPages == 3       \* pages of the PDFs tried

PageTexts == {<<>>, <<"x">>, <<" ", "y">>, <<"z", "\n">>}
Pages == [ok : {TRUE}, text : PageTexts] \cup {[ok |-> FALSE, text |-> <<>>]}
PageLists == UNION {[1..n -> Pages] : n \in 0..MaxPages}

\* f"[Page {page_num + 1}]\n{page_text}" for the page at 1-based index i
PageBlock(i, page_text) ==
    <<"[", "P", "a", "g", "e", " ">> \o PyStr(i) \o <<"]", "\n">> \o page_text

\* PDFExtractor.extract_text_from_pdf: the inner try skips a page whose
\* extraction raises; the outer try turns any other failure into ValueError
RECURSIVE MainParts(_, _)
MainParts(pages, i) ==
    IF i > Len(pages) THEN <<>>
    ELSE IF ~pages[i].ok THEN MainParts(pages, i + 1)
    ELSE IF pages[i].text # <<>>
         THEN <<PageBlock(i, pages[i].text)>> \o MainParts(pages, i + 1)
         ELSE MainParts(pages, i + 1)

extract_text_from_pdf(file) ==
    IF ~file.readable
    THEN [raised |-> TRUE, text |-> <<>>]
    ELSE [raised |-> FALSE,
          text |-> PyStrip(Join(MainParts(file.pages, 1), <<"\n", "\n">>))]

\* PDFProcessor.extract_text: one try around the whole loop; the text built
\* by the loop over pages that all extract
RECURSIVE AppText(_, _)
AppText(pages, i) ==
    IF i > Len(pages) THEN <<>>
    ELSE IF pages[i].text # <<>>
         THEN PageBlock(i, pages[i].text) \o <<"\n", "\n">> \o AppText(pages, i + 1)
         ELSE AppText(pages, i + 1)

extract_text(file) ==
    IF ~file.readable \/ \E i \in 1..Len(file.pages) : ~file.pages[i].ok
    THEN <<>>
    ELSE PyStrip(AppText(file.pages, 1))

ExtInit ==
    /\ ConvIdle
    /\ ChunkIdle
    /\ SessIdle
    /\ pdf_file \in [name : {"a.pdf"}, readable : BOOLEAN, pages : PageLists]
    /\ extractor = "none"
    /\ extracted = [raised |-> FALSE, text |-> <<>>]

RunPDFExtractor ==
    /\ extractor = "none"
    /\ extractor' = "PDFExtractor"
    /\ extracted' = extract_text_from_pdf(pdf_file)
    /\ UNCHANGED pdf_file
    /\ UNCHANGED <<conv_vars, chunk_vars, sess_vars>>

RunPDFProcessor ==
    /\ extractor = "none"
    /\ extractor' = "PDFProcessor"
    /\ extracted' = [raised |-> FALSE, text |-> extract_text(pdf_file)]
    /\ UNCHANGED pdf_file
    /\ UNCHANGED <<conv_vars, chunk_vars, sess_vars>>

ExtNext ==
    \/ RunPDFExtractor
    \/ RunPDFProcessor

ExtSpec == ExtInit /\ [][ExtNext]_vars

\* ---- claim about the extractors ----

\* the pages with each failing page replaced by a page without text
FailingAbsent(pages) ==
    [i \in 1..Len(pages) |->
        IF pages[i].ok THEN pages[i] ELSE [ok |-> TRUE, text |-> <<>>]]

\* the block of every page that extracted non-empty text occurs in t, in
\* page order (up to the whitespace strip() removes at the two ends of t)
RECURSIVE BlocksInOrder(_, _, _, _)
BlocksInOrder(t, pages, i, from) ==
    IF i > Len(pages) THEN TRUE
    ELSE IF ~pages[i].ok \/ pages[i].text = <<>> THEN BlocksInOrder(t, pages, i + 1, from)
    ELSE LET b == PyStrip(PageBlock(i, pages[i].text)) IN
         \E k \in from..(Len(t) - Len(b) + 1) :
            /\ SubSeq(t, k, k + Len(b) - 1) = b
            /\ BlocksInOrder(t, pages, i + 1, k + Len(b))

\* C9: when extraction raises on one page, the document does not fail as a
\* whole: the page counts as absent and the text of every other non-empty
\* page is in the result, in page order; for both extractors.
C9_FailingPageTolerated ==
    (extractor # "none" /\ pdf_file.readable) =>
        /\ ~extracted.raised
        /\ BlocksInOrder(extracted.text, pdf_file.pages, 1, 1)
        /\ extractor = "PDFExtractor" =>
             extracted = extract_text_from_pdf([pdf_file EXCEPT !.pages = FailingAbsent(@)])
        /\ extractor = "PDFProcessor" =>
             extracted.text = extract_text([pdf_file EXCEPT !.pages = FailingAbsent(@)])

\* ------------------------------------------------------------------------
\* The Streamlit session (app.py): main() runs once per interaction
\* ------------------------------------------------------------------------
MaxFiles == 2       \* files uploaded at once
MaxAsks == 2        \* questions asked before the messages are reset
Budget == 3000      \* OllamaAssistant.chat keeps this many characters

\* "\n[Document truncated...]"
TruncMarker ==
    <<"\n", "[", "D", "o", "c", "u", "m", "e", "n", "t", " ",
      "t", "r", "u", "n", "c", "a", "t", "e", "d", ".", ".", ".", "]">>
\* "\n\n"
Delimiter == <<"\n", "\n">>

\* the length of "[Page 1]\n"
BlockHead == Len(PageBlock(1, <<>>))
OnePage(t) == <<[ok |-> TRUE, text |-> t]>>

\* the uploads tried: a short PDF, one whose second page fails to extract
\* (extract_text gives "" for it), one whose text is exactly Budget long,
\* one a character longer
SessFiles ==
    { [name |-> "a.pdf", readable |-> TRUE, pages |-> OnePage(<<"x">>)],
      [name |-> "b.pdf", readable |-> TRUE,
       pages |-> OnePage(<<"x">>) \o <<[ok |-> FALSE, text |-> <<>>]>>],
      [name |-> "c.pdf", readable |-> TRUE, pages |-> OnePage(Repeat("x", Budget - BlockHead))],
      [name |-> "d.pdf", readable |-> TRUE, pages |-> OnePage(Repeat("x", Budget - BlockHead + 1))] }
Uploads == UNION {[1..n -> SessFiles] : n \in 1..MaxFiles}
Questions == {<<"q">>}
Responses == {<<"o", "k">>, <<"e", "r", "r">>}

SessInit ==
    /\ ConvIdle
    /\ ChunkIdle
    /\ ExtIdle
    /\ SessIdle

\* a loop that keeps the name of every file, with or without text
RECURSIVE ProcessFilesAllNames(_, _, _)
ProcessFilesAllNames(files, i, acc) ==
    IF i > Len(files) THEN acc
    ELSE LET t == extract_text(files[i]) IN
         ProcessFilesAllNames(files, i + 1,
            [texts |-> IF t # <<>> THEN Append(acc.texts, t) ELSE acc.texts,
             names |-> Append(acc.names, files[i].name)])

\* for pdf_file in uploaded_files:
\*     text = processor.extract_text(pdf_file)
\*     if text:
\*         st.session_state.pdf_texts.append(text)
\*         st.session_state.pdf_names.append(pdf_file.name)
RECURSIVE ProcessFiles(_, _, _)
ProcessFiles(files, i, acc) ==
    IF i > Len(files) THEN acc
    ELSE LET t == extract_text(files[i]) IN
         IF t # <<>>
         THEN ProcessFiles(files, i + 1,
                [texts |-> Append(acc.texts, t), names |-> Append(acc.names, files[i].name)])
         ELSE ProcessFiles(files, i + 1, acc)

\* the Process button, with uploaded_files not empty
Process(uploaded_files) ==
    /\ Len(uploaded_files) > 0
    /\ LET got == ProcessFiles(uploaded_files, 1, [texts |-> <<>>, names |-> <<>>]) IN
        /\ pdf_texts' = got.texts
        /\ pdf_names' = got.names
        /\ st_messages' = IF got.texts # <<>> THEN <<>> ELSE st_messages
    /\ processed' = uploaded_files
    /\ prompt' = NoPrompt
    /\ UNCHANGED <<conv_vars, chunk_vars, ext_vars>>

\* the Clear button, shown while pdf_names is not empty
Clear ==
    /\ pdf_names # <<>>
    /\ pdf_texts' = <<>>
    /\ pdf_names' = <<>>
    /\ st_messages' = <<>>
    /\ processed' = <<>>
    /\ prompt' = NoPrompt
    /\ UNCHANGED <<conv_vars, chunk_vars, ext_vars>>

\* a chat that cuts the context as soon as it reaches the budget
ChatContextEager(pdf_context) ==
    IF Len(pdf_context) >= Budget
    THEN SubSeq(pdf_context, 1, Budget) \o TruncMarker
    ELSE pdf_context

\* OllamaAssistant.chat:
\*   if len(pdf_context) > 3000:
\*       pdf_context = pdf_context[:3000] + "\n[Document truncated...]"
ChatContext(pdf_context) ==
    IF Len(pdf_context) > Budget
    THEN PySlice(pdf_context, 0, Budget) \o TruncMarker
    ELSE pdf_context

\* the prompt of chat: the document template when there is a context, the
\* bare question otherwise
ChatPrompt(user_query, pdf_context) ==
    LET ctx == ChatContext(pdf_context) IN
    IF ctx # <<>>
    THEN [kind |-> "document", document |-> ctx, question |-> user_query]
    ELSE [kind |-> "plain", document |-> <<>>, question |-> user_query]

\* pdf_context = ""; if pdf_texts: pdf_context = "\n\n".join(pdf_texts)
PdfContext == IF pdf_texts # <<>> THEN Join(pdf_texts, Delimiter) ELSE <<>>

\* a question typed into the chat input; response is what chat returns
Ask(user_input, response) ==
    /\ Len(st_messages) < 2 * MaxAsks
    /\ user_input # <<>>
    /\ prompt' = ChatPrompt(user_input, PdfContext)
    /\ st_messages' = st_messages \o
          <<[role |-> Str_user, content |-> user_input],
            [role |-> Str_assistant, content |-> response]>>
    /\ UNCHANGED <<pdf_texts, pdf_names, processed>>
    /\ UNCHANGED <<conv_vars, chunk_vars, ext_vars>>

AskStep == \E q \in Questions, r \in Responses : Ask(q, r)

SessNext ==
    \/ \E files \in Uploads : Process(files)
    \/ Clear
    \/ AskStep

SessSpec == SessInit /\ [][SessNext]_vars

\* ---- claims about the session ----

\* C7: the context placed in the prompt is at most Budget + len(marker)
\* long; when the joined text is longer than the budget it is the first
\* Budget characters of the joined text followed by the marker, otherwise
\* it is the joined text unchanged, without marker.
C7_ContextWithinBudget ==
    [][AskStep =>
        LET joined == Join(pdf_texts, Delimiter) IN
        /\ Len(prompt'.document) <= Budget + Len(TruncMarker)
        /\ Len(joined) > Budget =>
              prompt'.document = SubSeq(joined, 1, Budget) \o TruncMarker
        /\ Len(joined) <= Budget => prompt'.document = joined]_vars

\* C7 witness: a question was asked over documents longer than the budget,
\* and the prompt holds Budget characters and the marker
C7_Witness ==
    /\ prompt.kind = "document"
    /\ Len(Join(pdf_texts, Delimiter)) > Budget
    /\ Len(prompt.document) = Budget + Len(TruncMarker)
    /\ SubSeq(prompt.document, Budget + 1, Len(prompt.document)) = TruncMarker

\* the files of the last Process whose extraction gave text, in order
WithText(files) == SelectSeq(files, LAMBDA f : extract_text(f) # <<>>)

\* C10: pdf_texts and pdf_names have the same length, pdf_names[i] is the
\* name of the file whose non-empty text is pdf_texts[i], and a file whose
\* extraction gave no text is in neither list.
C10_NamesMatchTexts ==
    /\ Len(pdf_texts) = Len(pdf_names)
    /\ Len(pdf_texts) = Len(WithText(processed))
    /\ \A i \in 1..Len(pdf_texts) :
          /\ pdf_texts[i] # <<>>
          /\ pdf_names[i] = WithText(processed)[i].name
          /\ pdf_texts[i] = extract_text(WithText(processed)[i])

\* C10 witness: a file with text was processed after one without, and a
\* question was asked
C10_Witness ==
    /\ Len(processed) = 2
    /\ extract_text(processed[1]) = <<>>
    /\ pdf_names = <<processed[2].name>>
    /\ st_messages # <<>>

====
